---- MODULE Spec2Model ----
(***************************************************************************)
(* Model of bot.py: the per-message handler handle_message with its two    *)
(* retry loops, exponential_backoff_retry (generation) and                 *)
(* send_message_with_retry (delivery).                                     *)
(*                                                                         *)
(* Strings of the program are TLA+ strings; a text that is kept in the     *)
(* state is kept packed (see Pack/Unpack), and every string operation of   *)
(* the program (strip, replace, in, lower, len, slicing) is computed on    *)
(* the unpacked string, character by character.                            *)
(*                                                                         *)
(* A string holds one character per code point.  An ASCII character that   *)
(* TLA+ can write is written as itself; the other characters are written   *)
(* by class, the classes being those that strip() and lower() tell apart:  *)
(*   "\f"  form feed, and every other whitespace character (str.isspace)   *)
(*         that TLA+ has no escape for: U+000B, U+001C to U+001F, U+0085,  *)
(*         U+00A0 and the Unicode spaces; strip() removes them and lower() *)
(*         leaves them alone;                                              *)
(*   "K"   also U+212A KELVIN SIGN, which lower() maps to "k";             *)
(*   "#"   also every other character that is not whitespace and that      *)
(*         lower() leaves alone or maps to one character of this class:    *)
(*         the emoji of the fixed replies, the letters outside ASCII, the  *)
(*         control characters.                                             *)
(* The characters of one class differ for none of the program's string     *)
(* operations, since none of them occurs in a string the program searches  *)
(* for (the rate-limit indicators, the key message, "@" + BotUsername).    *)
(* U+0130, the one character lower() maps to two code points, has no       *)
(* writing: the texts are taken not to hold it.                            *)
(***************************************************************************)
EXTENDS Integers, Sequences, FiniteSets, TLC

\* ------------------------------------------------------------------------
\* Configuration (bot.py:17-20) and the literals of handle_message
\* ------------------------------------------------------------------------
MAX_RETRIES == 3

BASE_DELAY == 1

MAX_DELAY == 60

\* len(user_message) > 4000
MaxMessageLen == 4000

\* len(ai_response) > 4096
MaxReplyLen == 4096

\* ai_response[:4090]
TruncateAt == 4090

\* the largest retry_after (seconds) the transport is taken to request
MaxRetryAfter == 2

\* ------------------------------------------------------------------------
\* Strings
\* ------------------------------------------------------------------------
Min(a, b) == IF a < b THEN a ELSE b

RECURSIVE Pow2(_)
\* 2 ** n
Pow2(n) == IF n = 0 THEN 1 ELSE 2 * Pow2(n - 1)

\* s[i] (1-based)
CharAt(s, i) == SubSeq(s, i, i)

RECURSIVE Rep(_, _)
\* s * n
Rep(s, n) ==
    IF n = 0 THEN ""
    ELSE IF n % 2 = 1 THEN s \o Rep(s, n - 1)
    ELSE LET half == Rep(s, n \div 2) IN half \o half

\* str.isspace() on one character: what str.strip() removes ("\f" stands
\* for every whitespace character other than these four)
IsSpace(c) == c \in {" ", "\t", "\n", "\r", "\f"}

RECURSIVE SkipSpaces(_, _, _)
\* the first index from i on, walking by step, that holds no whitespace
SkipSpaces(s, i, step) ==
    IF i < 1 \/ i > Len(s) THEN i
    ELSE IF IsSpace(CharAt(s, i)) THEN SkipSpaces(s, i + step, step)
    ELSE i

\* str.strip()
Strip(s) == SubSeq(s, SkipSpaces(s, 1, 1), SkipSpaces(s, Len(s), -1))

\* positions where sub occurs in s
Occurrences(sub, s) ==
    {i \in 1..(Len(s) - Len(sub) + 1) : SubSeq(s, i, i + Len(sub) - 1) = sub}

\* sub in s
Contains(sub, s) == Occurrences(sub, s) # {}

RECURSIVE ReplaceFrom(_, _, _)
\* s[pos:].replace(old, ""): the leftmost occurrence at or after pos is cut
\* out and the scan resumes right after it
ReplaceFrom(s, old, pos) ==
    LET occ == {i \in Occurrences(old, s) : i >= pos}
    IN  IF occ = {} \/ Len(old) = 0 THEN SubSeq(s, pos, Len(s))
        ELSE LET m == CHOOSE i \in occ : \A j \in occ : i <= j
             IN  SubSeq(s, pos, m - 1) \o ReplaceFrom(s, old, m + Len(old))

\* s.replace(old, "")
Remove(s, old) == ReplaceFrom(s, old, 1)

Upper == <<"A", "B", "C", "D", "E", "F", "G", "H", "I", "J", "K", "L", "M",
           "N", "O", "P", "Q", "R", "S", "T", "U", "V", "W", "X", "Y", "Z">>

Lowercase == <<"a", "b", "c", "d", "e", "f", "g", "h", "i", "j", "k", "l", "m",
           "n", "o", "p", "q", "r", "s", "t", "u", "v", "w", "x", "y", "z">>

LowerChar(c) ==
    IF \E k \in 1..26 : Upper[k] = c
    THEN Lowercase[CHOOSE k \in 1..26 : Upper[k] = c]
    ELSE c

RECURSIVE LowerFrom(_, _)
LowerFrom(s, i) ==
    IF i > Len(s) THEN "" ELSE LowerChar(CharAt(s, i)) \o LowerFrom(s, i + 1)

\* str.lower()
Lower(s) == LowerFrom(s, 1)

\* ------------------------------------------------------------------------
\* Packed texts: a text in the state is a sequence of pieces <<chunk, n>>,
\* the chunk repeated n times.  A run of 8 or more equal characters is one
\* piece <<c, n>>; what lies between two such runs is one piece <<chunk, 1>>.
\* Unpack(Pack(s)) = s, and equal strings have equal packings.
\* ------------------------------------------------------------------------
\* the length of the run of equal characters that starts at i
RunLen(s, i) ==
    LET differ == {j \in (i + 1)..Len(s) : CharAt(s, j) # CharAt(s, i)}
    IN  IF differ = {} THEN Len(s) + 1 - i
        ELSE (CHOOSE j \in differ : \A k \in differ : j <= k) - i

\* where the runs of 8 or more equal characters start
LongRuns(s) ==
    {i \in 1..(Len(s) - 7) :
        /\ i = 1 \/ CharAt(s, i) # CharAt(s, i - 1)
        /\ SubSeq(s, i, i + 7) = Rep(CharAt(s, i), 8)}

RECURSIVE PackFrom(_, _, _)
PackFrom(s, long, pos) ==
    IF pos > Len(s) THEN << >>
    ELSE IF pos \in long
         THEN LET n == RunLen(s, pos)
              IN  << <<CharAt(s, pos), n>> >> \o PackFrom(s, long, pos + n)
         ELSE LET later == {j \in long : j > pos}
                  nxt == IF later = {} THEN Len(s) + 1
                         ELSE CHOOSE j \in later : \A k \in later : j <= k
              IN  << <<SubSeq(s, pos, nxt - 1), 1>> >> \o PackFrom(s, long, nxt)

Pack(s) == PackFrom(s, LongRuns(s), 1)

\* the function f with its values computed once, not at every use
Table(f) == f @@ << >>

RECURSIVE Unpack(_)
Unpack(t) == IF t = << >> THEN "" ELSE Rep(t[1][1], t[1][2]) \o Unpack(Tail(t))

\* ------------------------------------------------------------------------
\* Fixed replies
\* ------------------------------------------------------------------------
\* get_ai_response, except RateLimitError
SlowDownReply ==
    "# Whoa there! Too many messages at once. I need a breather. Try again in a minute?"

\* get_ai_response, except APIError with "api key not configured"
NotConfiguredReply ==
    "Oops, looks like my brain isn't connected. Someone forgot to plug me in properly! #"

\* get_ai_response, except APIError otherwise
CrashedReply ==
    "My brain just crashed for a second there. Give me a moment to reboot! ##"

\* get_ai_response, except Exception
GlitchyReply ==
    "Something weird just happened. I'm feeling a bit glitchy right now. #"

\* handle_message, len(user_message) > 4000
TooLongReply ==
    "Whoa, that's a novel! Can you keep it shorter? My attention span isn't that long! #"

\* handle_message, except Exception
OopsReply == "Oops, something went wrong! My bad! ####"

\* the marker handle_message appends to a cut reply
EllipsisMarker == "... #"

\* the fixed replies as they are kept in the state
Packed ==
    Table([s \in {SlowDownReply, NotConfiguredReply, CrashedReply, GlitchyReply,
                  TooLongReply, OopsReply} |-> Pack(s)])

\* ------------------------------------------------------------------------
\* The environment: the updates the dispatcher delivers, what the
\* generation API answers, and how a transport call ends
\* ------------------------------------------------------------------------
\* (await context.bot.get_me()).username
BotUsername == "alex_bot"

Mention == "@" \o BotUsername

ChatTypes == {"private", "group", "supergroup"}

\* who wrote the message this one replies to (reply_to_message.from_user)
ReplyKinds == {"none", "bot", "other"}

ShortTexts == {"hi", Mention \o " tell me a joke"}

SampleTexts ==
    ShortTexts \cup
    { "", "   ", " hi\n", "\f", Mention, "hey " \o Mention \o " hi ",
      "\f" \o Mention \o " hi\f", Mention \o " \f",
      Rep("a", MaxMessageLen), Rep("a", MaxMessageLen) \o " ",
      Rep("a", MaxMessageLen + 1),
      Mention \o " " \o Rep("a", MaxMessageLen),
      Mention \o Rep("a", MaxMessageLen + 1) }

NoMessage ==
    [message |-> FALSE, chat_type |-> "private", text |-> << >>, reply_to |-> "none"]

\* the updates handed to handle_message: every sample text in a private
\* chat and in a group without a reply; replies and supergroups with the
\* short texts, and one long reply to the bot in a group
Updates ==
    {NoMessage} \cup
    { u \in [message : {TRUE}, chat_type : ChatTypes,
             text : {Pack(s) : s \in SampleTexts}, reply_to : ReplyKinds] :
        /\ u.chat_type = "private" => u.reply_to = "none"
        /\ u.chat_type = "supergroup" \/ u.reply_to # "none"
              => \/ u.text \in {Pack(s) : s \in ShortTexts}
                 \/ /\ u.chat_type = "group"
                    /\ u.reply_to = "bot"
                    /\ u.text = Pack(Rep("a", MaxMessageLen) \o " ") }

\* os.getenv("GEMINI_API_KEY"); "" stands for an unset variable too
ApiKeys == {"", "YOUR_GEMINI_API_KEY", "AIza-key"}

\* what model.generate_content(prompt) does: a response with this text, or
\* an exception with this message
ApiOutcomes ==
    { [kind |-> "ok", exc |-> "", val |-> "hi there"],
      [kind |-> "ok", exc |-> "", val |-> ""],
      [kind |-> "ok", exc |-> "", val |-> Rep("b", MaxReplyLen)],
      [kind |-> "ok", exc |-> "", val |-> Rep("b", MaxReplyLen + 1)],
      [kind |-> "raise", exc |-> "ResourceExhausted", val |-> "Quota exceeded for model"],
      [kind |-> "raise", exc |-> "ResourceExhausted", val |-> "Resource exhausted"],
      [kind |-> "raise", exc |-> "InternalServerError", val |-> "429 Too Many Requests"],
      [kind |-> "raise", exc |-> "InternalServerError", val |-> "500 Internal error"] }

Ok == [kind |-> "ok", retry_after |-> 0]

Raised(k) == [kind |-> k, retry_after |-> 0]

\* telegram.error: TimedOut and BadRequest are subclasses of NetworkError
IsNetworkError(kind) == kind \in {"NetworkError", "TimedOut", "BadRequest"}

\* telegram.error: every exception of the library is a TelegramError
IsTelegramError(kind) ==
    \/ IsNetworkError(kind)
    \/ kind \in {"TelegramError", "RetryAfter", "Forbidden", "InvalidToken",
                 "ChatMigrated", "Conflict", "EndPointNotFound",
                 "PassportDecryptionError"}

\* how context.bot.send_message ends
SendOutcomes ==
    {Ok, Raised("TimedOut"), Raised("NetworkError"), Raised("BadRequest"),
     Raised("Forbidden")}
    \cup {[kind |-> "RetryAfter", retry_after |-> d] : d \in 1..MaxRetryAfter}

\* how get_me, send_chat_action and reply_text end
CallOutcomes == {Ok, Raised("NetworkError")}

\* ------------------------------------------------------------------------
\* The pure parts of the program
\* ------------------------------------------------------------------------
\* exponential_backoff_retry: the indicators looked for in str(e).lower()
RateLimitIndicators == {"429", "rate limit", "quota", "resource has been exhausted"}

\* any(indicator in error_str for indicator in [...])
IsRateLimit(error_str) == \E ind \in RateLimitIndicators : Contains(ind, error_str)

\* faulty variant: the placeholder passes for a credential
KeyMissing_UnsetOnly(key) == key = ""

\* not GEMINI_API_KEY or GEMINI_API_KEY == "YOUR_GEMINI_API_KEY"
KeyMissing(key) == key = "" \/ key = "YOUR_GEMINI_API_KEY"

\* get_ai_response_sync under credential key, when generate_content (if it
\* is reached at all: api) ends as out
get_ai_response_sync(key, out) ==
    IF KeyMissing(key)
    THEN [api |-> FALSE, kind |-> "raise", exc |-> "APIError",
          val |-> "Gemini API key not configured"]
    ELSE IF out.kind = "ok" /\ out.val = ""
    THEN [api |-> TRUE, kind |-> "raise", exc |-> "APIError",
          val |-> "Empty response from Gemini API"]
    ELSE [api |-> TRUE, kind |-> out.kind, exc |-> out.exc, val |-> out.val]

\* faulty variant: the delay does not grow with the attempt
BackoffDelay_NoExponent(cfg, n) == Min(cfg.BASE_DELAY, cfg.MAX_DELAY)

\* min(BASE_DELAY * (2 ** attempt), MAX_DELAY)
BackoffDelay(cfg, n) == Min(cfg.BASE_DELAY * Pow2(n), cfg.MAX_DELAY)

\* BASE_DELAY * (2 ** attempt), the delay of send_message_with_retry
NetworkDelay(cfg, n) == cfg.BASE_DELAY * Pow2(n)

\* the results of get_ai_response_sync
SyncResults == {get_ai_response_sync(k, o) : k \in ApiKeys, o \in ApiOutcomes}

\* IsRateLimit(str(e).lower()) for the exceptions of SyncResults, computed once
RateLimitSignals ==
    Table([m \in {r.val : r \in {x \in SyncResults : x.kind = "raise"}} |->
              IsRateLimit(Lower(m))])

\* error_str = str(e).lower(); any(indicator in error_str for indicator in [...])
SignalsRateLimit(msg) ==
    IF msg \in DOMAIN RateLimitSignals THEN RateLimitSignals[msg]
    ELSE IsRateLimit(Lower(msg))

\* faulty variant: every failure is retried, whatever its message
RetryStep_RetryAll(cfg, n, r) ==
    IF r.kind = "ok" THEN [kind |-> "return", val |-> r.val, delay |-> 0]
    ELSE IF n = cfg.MAX_RETRIES - 1
    THEN [kind |-> "RateLimitError",
          val |-> "Rate limit exceeded after all retries", delay |-> 0]
    ELSE [kind |-> "sleep", val |-> "", delay |-> BackoffDelay(cfg, n)]

\* faulty variant: the last attempt is taken to be attempt MAX_RETRIES
RetryStep_OffByOne(cfg, n, r) ==
    IF r.kind = "ok" THEN [kind |-> "return", val |-> r.val, delay |-> 0]
    ELSE IF SignalsRateLimit(r.val)
    THEN IF n = cfg.MAX_RETRIES
         THEN [kind |-> "RateLimitError",
               val |-> "Rate limit exceeded after all retries", delay |-> 0]
         ELSE [kind |-> "sleep", val |-> "", delay |-> BackoffDelay(cfg, n)]
    ELSE [kind |-> "APIError", val |-> "API error: " \o r.val, delay |-> 0]

\* one turn of the loop of exponential_backoff_retry: what attempt n does
\* with the result r of the wrapped call
RetryStep(cfg, n, r) ==
    IF r.kind = "ok" THEN [kind |-> "return", val |-> r.val, delay |-> 0]
    ELSE IF SignalsRateLimit(r.val)
    THEN IF n = cfg.MAX_RETRIES - 1
         THEN [kind |-> "RateLimitError",
               val |-> "Rate limit exceeded after all retries", delay |-> 0]
         ELSE [kind |-> "sleep", val |-> "", delay |-> BackoffDelay(cfg, n)]
    ELSE [kind |-> "APIError", val |-> "API error: " \o r.val, delay |-> 0]

\* one turn of the loop of send_message_with_retry: what attempt n does with
\* the result res of context.bot.send_message
SendStep(cfg, n, res) ==
    IF res.kind = "ok" THEN [kind |-> "return", delay |-> 0]
    ELSE IF res.kind = "RetryAfter" THEN [kind |-> "sleep", delay |-> res.retry_after]
    ELSE IF IsNetworkError(res.kind)
    THEN IF n = cfg.MAX_RETRIES - 1
         THEN [kind |-> "raise", delay |-> 0]
         ELSE [kind |-> "sleep", delay |-> NetworkDelay(cfg, n)]
    ELSE [kind |-> "raise", delay |-> 0]

\* "api key not configured" in str(e).lower() for the APIErrors that
\* exponential_backoff_retry raises, computed once
KeyErrors ==
    Table([m \in {"API error: " \o r.val : r \in {x \in SyncResults : x.kind = "raise"}}
                 \cup {"Max retries exceeded"} |->
              Contains("api key not configured", Lower(m))])

\* "api key not configured" in str(e).lower()
SaysKeyNotConfigured(msg) ==
    IF msg \in DOMAIN KeyErrors THEN KeyErrors[msg]
    ELSE Contains("api key not configured", Lower(msg))

\* faulty variant: the message of the APIError is put into the reply
get_ai_response_EchoError(exit) ==
    IF exit.kind = "return" THEN exit.val
    ELSE IF exit.kind = "RateLimitError" THEN SlowDownReply
    ELSE "My brain just crashed: " \o exit.val

\* get_ai_response: the text returned when exponential_backoff_retry ends
\* as exit (a return or a raised exception)
get_ai_response(exit) ==
    IF exit.kind = "return" THEN exit.val
    ELSE IF exit.kind = "RateLimitError" THEN SlowDownReply
    ELSE IF exit.kind = "APIError"
    THEN IF SaysKeyNotConfigured(exit.val)
         THEN NotConfiguredReply
         ELSE CrashedReply
    ELSE GlitchyReply

\* faulty variant: the reply is cut at the limit itself, not below it
Truncate_AtLimit(s) ==
    IF Len(s) > MaxReplyLen THEN SubSeq(s, 1, MaxReplyLen) \o EllipsisMarker ELSE s

\* handle_message: if len(ai_response) > 4096: ai_response[:4090] + "... "
Truncate(s) ==
    IF Len(s) > MaxReplyLen THEN SubSeq(s, 1, TruncateAt) \o EllipsisMarker ELSE s

IsGroup(chat_type) == chat_type \in {"group", "supergroup"}

\* handle_message's user_message at the length checks: in a group
\* user_message.replace(f"@{bot_username}", "").strip(), else message.text
Normalize(chat_type, raw, bot_username) ==
    IF IsGroup(chat_type)
    THEN Strip(Remove(raw, "@" \o bot_username))
    ELSE raw

\* handle_message, from the group check to the length checks: what is done
\* with the message of update u when the bot is called bot_username
Classify(u, bot_username) ==
    LET raw == Unpack(u.text)
        is_reply_to_bot == u.reply_to = "bot"
        is_mention == Contains("@" \o bot_username, raw)
        normalized == Normalize(u.chat_type, raw, bot_username)
    IN  IF IsGroup(u.chat_type) /\ ~is_reply_to_bot /\ ~is_mention
        THEN [decision |-> "ignore", user_message |-> raw]
        ELSE IF Len(Strip(normalized)) = 0
        THEN [decision |-> "ignore", user_message |-> normalized]
        ELSE IF Len(normalized) > MaxMessageLen
        THEN [decision |-> "too_long", user_message |-> normalized]
        ELSE [decision |-> "respond", user_message |-> normalized]

\* the texts of the generation: what get_ai_response_sync returns or raises,
\* what exponential_backoff_retry raises, and what is made of them
GenerationTexts ==
    LET results == {r.val : r \in SyncResults}
        exits == results \cup {"API error: " \o m : m \in results}
                         \cup {"Rate limit exceeded after all retries", "Max retries exceeded"}
    IN  exits \cup {Truncate(m) : m \in results} \cup DOMAIN Packed

\* Pack for the texts of the generation, computed once
PackedTexts == Table([s \in GenerationTexts |-> Pack(s)])

\* s as it is kept in the state
PackText(s) == IF s \in DOMAIN PackedTexts THEN PackedTexts[s] ELSE Pack(s)

\* Classify for every update, computed once; user_message is kept packed
Classification ==
    Table([u \in Updates |->
        LET c == Classify(u, BotUsername)
        IN  [decision |-> c.decision, user_message |-> Pack(c.user_message)]])

\* ------------------------------------------------------------------------
\* State: one handle_message task per delivered update
\* ------------------------------------------------------------------------
VARIABLES
    GEMINI_API_KEY,  \* the credential read at import
    config,          \* MAX_RETRIES, BASE_DELAY and MAX_DELAY as the loops read them
    update,          \* update[h]: the h-th update the application fetched
    pc,              \* where task h is: its update waits for the handler
                     \* ("received"), handle_message is suspended at an
                     \* await, or handle_message has returned ("done")
    user_message,    \* handle_message's user_message (packed)
    attempt,         \* the loop variable of the retry loop task h is in
    delay,           \* the seconds of the sleep task h is about to take
    retry_exit,      \* how exponential_backoff_retry ended
    ai_response,     \* what get_ai_response returned (packed)
    text,            \* the text given to send_message_with_retry (packed)
    caught,          \* the exception caught by handle_message's except
    outcome,         \* how handle_message ended
    calls,           \* the calls of get_ai_response_sync, in order
    sleeps,          \* the asyncio.sleep calls, in order
    transport        \* the calls of the chat transport, in order

locals == <<user_message, attempt, delay, retry_exit, ai_response, text, caught, outcome>>

logs == <<calls, sleeps, transport>>

vars == <<GEMINI_API_KEY, config, update, pc, locals, logs>>

Tasks == DOMAIN pc

NoExit == [kind |-> "", val |-> << >>]

\* the configuration bot.py ships with
Shipped == [MAX_RETRIES |-> MAX_RETRIES, BASE_DELAY |-> BASE_DELAY, MAX_DELAY |-> MAX_DELAY]

\* n tasks, each with an update of us, under a credential of keys and a
\* configuration of cfgs
InitWith(n, us, keys, cfgs) ==
    /\ GEMINI_API_KEY \in keys
    /\ config \in cfgs
    /\ update \in [1..n -> us]
    /\ pc = [h \in 1..n |-> "received"]
    /\ user_message = [h \in 1..n |-> << >>]
    /\ attempt = [h \in 1..n |-> 0]
    /\ delay = [h \in 1..n |-> 0]
    /\ retry_exit = [h \in 1..n |-> NoExit]
    /\ ai_response = [h \in 1..n |-> << >>]
    /\ text = [h \in 1..n |-> << >>]
    /\ caught = [h \in 1..n |-> ""]
    /\ outcome = [h \in 1..n |-> ""]
    /\ calls = [h \in 1..n |-> << >>]
    /\ sleeps = [h \in 1..n |-> << >>]
    /\ transport = [h \in 1..n |-> << >>]

Init == InitWith(1, Updates, ApiKeys, {Shipped})

\* one call of the chat transport by task h
Called(h, op, t, res) ==
    transport' = [transport EXCEPT ![h] = Append(@, [op |-> op, text |-> t, res |-> res])]

\* exponential_backoff_retry ends as exit: get_ai_response turns it into a
\* text, handle_message cuts the text and calls send_message_with_retry
GenerationEnds(h, exit) ==
    /\ retry_exit' = [retry_exit EXCEPT ![h] = [kind |-> exit.kind, val |-> PackText(exit.val)]]
    /\ ai_response' = [ai_response EXCEPT ![h] = PackText(get_ai_response(exit))]
    /\ text' = [text EXCEPT ![h] = PackText(Truncate(get_ai_response(exit)))]
    /\ attempt' = [attempt EXCEPT ![h] = 0]
    /\ pc' = [pc EXCEPT ![h] = "send_message"]

\* ------------------------------------------------------------------------
\* Actions: a task runs from one await to the next
\* ------------------------------------------------------------------------
\* main: the application is built without concurrent_updates and the
\* handler is registered blocking, so the application awaits the handler
\* call for one update to its end before it processes the next update
Dispatched(h) == \A g \in Tasks : g < h => pc[g] = "done"

\* the application calls handle_message for update h; handle_message up to
\* await context.bot.get_me()
handle_message(h) ==
    /\ pc[h] = "received"
    /\ Dispatched(h)
    /\ IF ~update[h].message \/ update[h].text = Pack("")
       THEN /\ pc' = [pc EXCEPT ![h] = "done"]
            /\ outcome' = [outcome EXCEPT ![h] = "ignored"]
            /\ UNCHANGED user_message
       ELSE /\ pc' = [pc EXCEPT ![h] = "get_me"]
            /\ user_message' = [user_message EXCEPT ![h] = update[h].text]
            /\ UNCHANGED outcome
    /\ UNCHANGED <<GEMINI_API_KEY, config, update, attempt, delay, retry_exit, ai_response,
                   text, caught, logs>>

\* get_me answers; the group check and the length checks follow
get_me(h) ==
    /\ pc[h] = "get_me"
    /\ \E res \in CallOutcomes :
         LET c == Classification[update[h]]
             next == IF res.kind # "ok" THEN "except"
                     ELSE IF c.decision = "ignore" THEN "done"
                     ELSE IF c.decision = "too_long" THEN "reply_too_long"
                     ELSE "send_chat_action"
         IN  /\ Called(h, "get_me", << >>, res)
             /\ pc' = [pc EXCEPT ![h] = next]
             /\ caught' = [caught EXCEPT ![h] = IF res.kind # "ok" THEN res.kind ELSE @]
             /\ outcome' = [outcome EXCEPT ![h] = IF next = "done" THEN "ignored" ELSE @]
             /\ user_message' = [user_message EXCEPT ![h] =
                                   IF res.kind = "ok" THEN c.user_message ELSE @]
    /\ UNCHANGED <<GEMINI_API_KEY, config, update, attempt, delay, retry_exit, ai_response,
                   text, calls, sleeps>>

\* faulty variant: the return after the "too long" reply is missing
reply_too_long_NoReturn(h) ==
    /\ pc[h] = "reply_too_long"
    /\ \E res \in CallOutcomes :
         /\ Called(h, "reply_text", Packed[TooLongReply], res)
         /\ pc' = [pc EXCEPT ![h] = IF res.kind = "ok" THEN "send_chat_action" ELSE "except"]
         /\ caught' = [caught EXCEPT ![h] = IF res.kind = "ok" THEN @ ELSE res.kind]
    /\ UNCHANGED <<GEMINI_API_KEY, config, update, user_message, attempt, delay, retry_exit,
                   ai_response, text, outcome, calls, sleeps>>

\* await message.reply_text("Whoa, that's a novel! ...")
reply_too_long(h) ==
    /\ pc[h] = "reply_too_long"
    /\ \E res \in CallOutcomes :
         /\ Called(h, "reply_text", Packed[TooLongReply], res)
         /\ pc' = [pc EXCEPT ![h] = IF res.kind = "ok" THEN "done" ELSE "except"]
         /\ outcome' = [outcome EXCEPT ![h] = IF res.kind = "ok" THEN "too_long" ELSE @]
         /\ caught' = [caught EXCEPT ![h] = IF res.kind = "ok" THEN @ ELSE res.kind]
    /\ UNCHANGED <<GEMINI_API_KEY, config, update, user_message, attempt, delay, retry_exit,
                   ai_response, text, calls, sleeps>>

\* faulty variant: a failure of the typing indicator reaches the except
\* clause of handle_message
send_chat_action_Raises(h) ==
    /\ pc[h] = "send_chat_action"
    /\ \E res \in CallOutcomes :
         /\ Called(h, "send_chat_action", << >>, res)
         /\ pc' = [pc EXCEPT ![h] = IF res.kind = "ok" THEN "generate" ELSE "except"]
         /\ caught' = [caught EXCEPT ![h] = IF res.kind = "ok" THEN @ ELSE res.kind]
    /\ attempt' = [attempt EXCEPT ![h] = 0]
    /\ UNCHANGED <<GEMINI_API_KEY, config, update, user_message, delay, retry_exit,
                   ai_response, text, outcome, calls, sleeps>>

\* await context.bot.send_chat_action(...), its failure only logged; then
\* get_ai_response(user_message) enters exponential_backoff_retry
send_chat_action(h) ==
    /\ pc[h] = "send_chat_action"
    /\ \E res \in CallOutcomes : Called(h, "send_chat_action", << >>, res)
    /\ pc' = [pc EXCEPT ![h] = "generate"]
    /\ attempt' = [attempt EXCEPT ![h] = 0]
    /\ UNCHANGED <<GEMINI_API_KEY, config, update, user_message, delay, retry_exit,
                   ai_response, text, caught, outcome, calls, sleeps>>

\* one attempt of exponential_backoff_retry:
\* await asyncio.to_thread(get_ai_response_sync, prompt) and what follows it
exponential_backoff_retry(h) ==
    /\ pc[h] = "generate"
    /\ \E out \in ApiOutcomes :
         LET r == get_ai_response_sync(GEMINI_API_KEY, out)
             step == RetryStep(config, attempt[h], r)
         IN  /\ calls' = [calls EXCEPT ![h] =
                            Append(@, [prompt |-> user_message[h], api |-> r.api,
                                       kind |-> r.kind, exc |-> r.exc, val |-> PackText(r.val)])]
             /\ IF step.kind = "sleep"
                THEN /\ delay' = [delay EXCEPT ![h] = step.delay]
                     /\ pc' = [pc EXCEPT ![h] = "backoff_sleep"]
                     /\ UNCHANGED <<retry_exit, ai_response, text, attempt>>
                ELSE /\ GenerationEnds(h, step)
                     /\ UNCHANGED delay
    /\ UNCHANGED <<GEMINI_API_KEY, config, update, user_message, caught, outcome, sleeps, transport>>

\* faulty variant: the retry after a backoff sleep is not counted
backoff_sleep_NoCount(h) ==
    /\ pc[h] = "backoff_sleep"
    /\ sleeps' = [sleeps EXCEPT ![h] = Append(@, [by |-> "generation", secs |-> delay[h]])]
    /\ pc' = [pc EXCEPT ![h] = "generate"]
    /\ UNCHANGED <<GEMINI_API_KEY, config, update, user_message, attempt, delay, retry_exit,
                   ai_response, text, caught, outcome, calls, transport>>

\* await asyncio.sleep(delay); continue
backoff_sleep(h) ==
    /\ pc[h] = "backoff_sleep"
    /\ sleeps' = [sleeps EXCEPT ![h] = Append(@, [by |-> "generation", secs |-> delay[h]])]
    /\ IF attempt[h] + 1 < config.MAX_RETRIES
       THEN /\ attempt' = [attempt EXCEPT ![h] = @ + 1]
            /\ pc' = [pc EXCEPT ![h] = "generate"]
            /\ UNCHANGED <<retry_exit, ai_response, text>>
       ELSE GenerationEnds(h, [kind |-> "APIError", val |-> "Max retries exceeded"])
    /\ UNCHANGED <<GEMINI_API_KEY, config, update, user_message, delay, caught, outcome,
                   calls, transport>>

\* one attempt of send_message_with_retry: await context.bot.send_message(...)
send_message_with_retry(h) ==
    /\ pc[h] = "send_message"
    /\ \E res \in SendOutcomes :
         LET step == SendStep(config, attempt[h], res)
         IN  /\ Called(h, "send_message", text[h], res)
             /\ pc' = [pc EXCEPT ![h] = IF step.kind = "return" THEN "done"
                                        ELSE IF step.kind = "raise" THEN "except"
                                        ELSE "send_sleep"]
             /\ outcome' = [outcome EXCEPT ![h] =
                              IF step.kind = "return" THEN "delivered" ELSE @]
             /\ caught' = [caught EXCEPT ![h] = IF step.kind = "raise" THEN res.kind ELSE @]
             /\ delay' = [delay EXCEPT ![h] = IF step.kind = "sleep" THEN step.delay ELSE @]
    /\ UNCHANGED <<GEMINI_API_KEY, config, update, user_message, attempt, retry_exit,
                   ai_response, text, calls, sleeps>>

\* await asyncio.sleep(...) in send_message_with_retry, then the next turn
\* of the for loop; after the last turn the function ends, returning None
send_sleep(h) ==
    /\ pc[h] = "send_sleep"
    /\ sleeps' = [sleeps EXCEPT ![h] = Append(@, [by |-> "delivery", secs |-> delay[h]])]
    /\ attempt' = [attempt EXCEPT ![h] = @ + 1]
    /\ pc' = [pc EXCEPT ![h] = IF attempt[h] + 1 < config.MAX_RETRIES THEN "send_message" ELSE "done"]
    /\ outcome' = [outcome EXCEPT ![h] =
                     IF attempt[h] + 1 < config.MAX_RETRIES THEN @ ELSE "returned_none"]
    /\ UNCHANGED <<GEMINI_API_KEY, config, update, user_message, delay, retry_exit,
                   ai_response, text, caught, calls, transport>>

\* faulty variant: a failure of the fallback reply leaves handle_message
reply_fallback_Propagates(h) ==
    /\ pc[h] = "except"
    /\ \E res \in CallOutcomes :
         /\ Called(h, "reply_text", Packed[OopsReply], res)
         /\ outcome' = [outcome EXCEPT ![h] =
                          IF res.kind = "ok" THEN "fallback_sent" ELSE "raised"]
    /\ pc' = [pc EXCEPT ![h] = "done"]
    /\ UNCHANGED <<GEMINI_API_KEY, config, update, user_message, attempt, delay, retry_exit,
                   ai_response, text, caught, calls, sleeps>>

\* faulty variant: the except branch only logs
reply_fallback_LogOnly(h) ==
    /\ pc[h] = "except"
    /\ pc' = [pc EXCEPT ![h] = "done"]
    /\ outcome' = [outcome EXCEPT ![h] = "fallback_failed"]
    /\ UNCHANGED <<GEMINI_API_KEY, config, update, user_message, attempt, delay, retry_exit,
                   ai_response, text, caught, calls, sleeps, transport>>

\* handle_message's except Exception:
\* await update.message.reply_text("Oops, something went wrong! ...")
reply_fallback(h) ==
    /\ pc[h] = "except"
    /\ \E res \in CallOutcomes :
         /\ Called(h, "reply_text", Packed[OopsReply], res)
         /\ outcome' = [outcome EXCEPT ![h] =
                          IF res.kind = "ok" THEN "fallback_sent" ELSE "fallback_failed"]
    /\ pc' = [pc EXCEPT ![h] = "done"]
    /\ UNCHANGED <<GEMINI_API_KEY, config, update, user_message, attempt, delay, retry_exit,
                   ai_response, text, caught, calls, sleeps>>

Next ==
    \/ \E h \in Tasks : handle_message(h)
    \/ \E h \in Tasks : get_me(h)
    \/ \E h \in Tasks : reply_too_long(h)
    \/ \E h \in Tasks : send_chat_action(h)
    \/ \E h \in Tasks : exponential_backoff_retry(h)
    \/ \E h \in Tasks : backoff_sleep(h)
    \/ \E h \in Tasks : send_message_with_retry(h)
    \/ \E h \in Tasks : send_sleep(h)
    \/ \E h \in Tasks : reply_fallback(h)

Spec == Init /\ [][Next]_vars

\* ------------------------------------------------------------------------
\* What the logs say
\* ------------------------------------------------------------------------
\* the attempts task h made to put a message into the chat
Sends(h) == SelectSeq(transport[h], LAMBDA c : c.op \in {"send_message", "reply_text"})

\* the messages task h put into the chat
Sent(h) == SelectSeq(Sends(h), LAMBDA c : c.res.kind = "ok")

\* the attempts of send_message_with_retry
Deliveries(h) == SelectSeq(transport[h], LAMBDA c : c.op = "send_message")

GenerationSleeps(h) == SelectSeq(sleeps[h], LAMBDA z : z.by = "generation")

DeliverySleeps(h) == SelectSeq(sleeps[h], LAMBDA z : z.by = "delivery")

\* the wrapped call failed with a rate-limit signal: an exception, of
\* whatever class, whose message holds one of the indicators
RateLimited(c) == c.kind = "raise" /\ SignalsRateLimit(Unpack(c.val))

\* the wrapped call failed otherwise
FailedOtherwise(c) == c.kind = "raise" /\ ~SignalsRateLimit(Unpack(c.val))

\* get_me answered and the message of task h was not ignored
PassedClassification(h) ==
    /\ transport[h] # << >>
    /\ transport[h][1].res.kind = "ok"
    /\ outcome[h] # "ignored"

FixedReplies == {Packed[s] : s \in DOMAIN Packed}

\* s[:4090] + "... ": a slice ends where the string ends
CutOf(s) ==
    (IF Len(s) <= TruncateAt THEN s ELSE SubSeq(s, 1, TruncateAt)) \o EllipsisMarker

\* the cut forms of the texts the generation API returns, computed once
CutForms ==
    Table([v \in {Pack(o.val) : o \in {x \in ApiOutcomes : x.kind = "ok"}} |->
              Pack(CutOf(Unpack(v)))])

\* the first 4090 units of the packed text v, followed by the ellipsis marker
CutForm(v) == IF v \in DOMAIN CutForms THEN CutForms[v] ELSE Pack(CutOf(Unpack(v)))

\* t is a text the generation API returned to task h, or its cut form
GeneratedReply(h, t) ==
    \E i \in 1..Len(calls[h]) :
        /\ calls[h][i].kind = "ok"
        /\ t = calls[h][i].val \/ t = CutForm(calls[h][i].val)

\* ------------------------------------------------------------------------
\* C1
\* ------------------------------------------------------------------------
\* C1 as stated: every message that passes classification has, when
\* handle_message ends, exactly one message sent for it: the generated
\* reply, its cut form or a fixed reply.
C1_ExactlyOneSent ==
    \A h \in Tasks :
        pc[h] = "done" /\ PassedClassification(h) =>
            /\ Len(Sent(h)) = 1
            /\ Sent(h)[1].text \in FixedReplies \/ GeneratedReply(h, Sent(h)[1].text)

\* C1 as amended: a message that passes classification has at most one
\* message sent for it, and that one is the generated reply, its cut form or
\* a fixed reply; at least one send is attempted, nothing is attempted after
\* a send that succeeded, and so none is sent only if every attempt failed.
C1_AtMostOneSent ==
    \A h \in Tasks :
        PassedClassification(h) =>
            /\ Len(Sent(h)) <= 1
            /\ pc[h] = "done" => Len(Sends(h)) >= 1
            /\ \A i \in 1..Len(Sends(h)) :
                   /\ Sends(h)[i].res.kind = "ok" => i = Len(Sends(h)) /\ pc[h] = "done"
                   /\ Sends(h)[i].text \in FixedReplies
                        \/ GeneratedReply(h, Sends(h)[i].text)

\* a cut reply was delivered at the second attempt
C1_Witness ==
    \E h \in Tasks :
        /\ pc[h] = "done"
        /\ PassedClassification(h)
        /\ Len(Sends(h)) = 2
        /\ Len(Sent(h)) = 1
        /\ Len(Unpack(Sent(h)[1].text)) = TruncateAt + Len(EllipsisMarker)

\* ------------------------------------------------------------------------
\* C2
\* ------------------------------------------------------------------------
\* C2: when the wrapped call fails with a rate-limit signal on its first n
\* attempts and then succeeds (n + 1 <= MAX_RETRIES), exponential_backoff_retry
\* makes n + 1 calls and n sleeps, the i-th of min(BASE_DELAY * 2^i, MAX_DELAY)
\* seconds, returns the successful result, and calls and sleeps no more.
C2_BackoffThenSuccess ==
    \A h \in Tasks : \A n \in 0..(MAX_RETRIES - 1) :
        ( /\ Len(calls[h]) >= n + 1
          /\ \A i \in 1..n : RateLimited(calls[h][i])
          /\ calls[h][n + 1].kind = "ok" )
        => /\ Len(calls[h]) = n + 1
           /\ GenerationSleeps(h) =
                [i \in 1..n |-> [by |-> "generation",
                                 secs |-> Min(BASE_DELAY * Pow2(i - 1), MAX_DELAY)]]
           /\ retry_exit[h] = [kind |-> "return", val |-> calls[h][n + 1].val]
           /\ pc[h] \notin {"generate", "backoff_sleep"}

\* two rate-limit failures of different classes, then a success, and the
\* task has ended
C2_Witness ==
    \E h \in Tasks :
        /\ Len(calls[h]) = 3
        /\ RateLimited(calls[h][1])
        /\ RateLimited(calls[h][2])
        /\ calls[h][1].exc # calls[h][2].exc
        /\ calls[h][3].kind = "ok"
        /\ Len(GenerationSleeps(h)) = 2
        /\ pc[h] = "done"

\* ------------------------------------------------------------------------
\* C3
\* ------------------------------------------------------------------------
\* C3: a failure without a rate-limit indicator makes
\* exponential_backoff_retry raise APIError on that attempt: it is the last
\* call, and the only sleeps are those after the rate-limit failures before
\* it (none when it is the first attempt).
C3_NoRetryOnOtherErrors ==
    \A h \in Tasks : \A i \in 1..Len(calls[h]) :
        FailedOtherwise(calls[h][i]) =>
            /\ i = Len(calls[h])
            /\ retry_exit[h].kind = "APIError"
            /\ Unpack(retry_exit[h].val) = "API error: " \o Unpack(calls[h][i].val)
            /\ Len(GenerationSleeps(h)) = i - 1
            /\ pc[h] \notin {"generate", "backoff_sleep"}

\* the API fails on the first attempt with ResourceExhausted, whose message
\* holds no indicator, and the task has ended
C3_Witness ==
    \E h \in Tasks :
        /\ Len(calls[h]) = 1
        /\ calls[h][1].api
        /\ calls[h][1].exc = "ResourceExhausted"
        /\ FailedOtherwise(calls[h][1])
        /\ sleeps[h] = << >>
        /\ pc[h] = "done"

\* ------------------------------------------------------------------------
\* C4
\* ------------------------------------------------------------------------
\* C4: when the generation call fails with a rate-limit signal on all
\* MAX_RETRIES attempts, exponential_backoff_retry ends with RateLimitError
\* and the text handed to delivery is the fixed "slow down" reply.
C4_ExhaustedRateLimit ==
    \A h \in Tasks :
        ( /\ Len(calls[h]) = MAX_RETRIES
          /\ \A i \in 1..MAX_RETRIES : RateLimited(calls[h][i]) )
        => /\ retry_exit[h].kind = "RateLimitError"
           /\ text[h] = Packed[SlowDownReply]
           /\ \A i \in 1..Len(Deliveries(h)) : Deliveries(h)[i].text = Packed[SlowDownReply]

\* three rate-limit failures, and the "slow down" reply was delivered
C4_Witness ==
    \E h \in Tasks :
        /\ Len(calls[h]) = MAX_RETRIES
        /\ \A i \in 1..MAX_RETRIES : RateLimited(calls[h][i])
        /\ outcome[h] = "delivered"
        /\ Sent(h) # << >>
        /\ Sent(h)[1].text = Packed[SlowDownReply]

\* ------------------------------------------------------------------------
\* C5
\* ------------------------------------------------------------------------
\* C5: with the credential absent or the placeholder, get_ai_response
\* returns the fixed "not configured" reply after one invocation of
\* get_ai_response_sync, without a call of the generation API or a sleep.
C5_NotConfigured ==
    \A h \in Tasks :
        GEMINI_API_KEY \in {"", "YOUR_GEMINI_API_KEY"} =>
            /\ Len(calls[h]) <= 1
            /\ \A i \in 1..Len(calls[h]) : ~calls[h][i].api
            /\ GenerationSleeps(h) = << >>
            /\ retry_exit[h].kind # "" =>
                  /\ Len(calls[h]) = 1
                  /\ ai_response[h] = Packed[NotConfiguredReply]
                  /\ text[h] = Packed[NotConfiguredReply]

\* under the placeholder credential the "not configured" reply was delivered
C5_Witness ==
    \E h \in Tasks :
        /\ GEMINI_API_KEY = "YOUR_GEMINI_API_KEY"
        /\ Len(calls[h]) = 1
        /\ outcome[h] = "delivered"
        /\ Sent(h)[1].text = Packed[NotConfiguredReply]

\* ------------------------------------------------------------------------
\* C6
\* ------------------------------------------------------------------------
\* the number of timeout and network failures among the first n attempts of
\* send_message_with_retry
NetworkFailures(h, n) ==
    Cardinality({i \in 1..n : IsNetworkError(Deliveries(h)[i].res.kind)})

\* C6 as stated: in send_message_with_retry every RetryAfter is followed by
\* a sleep of the requested duration and then by another send attempt,
\* however many attempts were made before; a RetryAfter uses up no attempt
\* and does not advance the exponent of the delays after network failures.
C6_RetryAfterAlwaysRetried ==
    \A h \in Tasks : \A i \in 1..Len(Deliveries(h)) :
        LET res == Deliveries(h)[i].res
        IN  /\ res.kind = "RetryAfter" /\ pc[h] = "done" => i < Len(Deliveries(h))
            /\ res.kind = "RetryAfter" /\ i <= Len(DeliverySleeps(h))
                 => DeliverySleeps(h)[i].secs = res.retry_after
            /\ IsNetworkError(res.kind) /\ i <= Len(DeliverySleeps(h))
                 => DeliverySleeps(h)[i].secs = BASE_DELAY * Pow2(NetworkFailures(h, i - 1))
            /\ IsNetworkError(res.kind) /\ pc[h] = "except" /\ i = Len(Deliveries(h))
                 => NetworkFailures(h, i) = MAX_RETRIES

\* ------------------------------------------------------------------------
\* C7
\* ------------------------------------------------------------------------
\* C7 as stated: send_message_with_retry returns normally only if exactly
\* one send_message call succeeded; when none succeeded, nothing is sent and
\* the failure reaches the caller as a raised error.
C7_ReturnsOnlyAfterSend ==
    \A h \in Tasks :
        LET succeeded == {i \in 1..Len(Deliveries(h)) : Deliveries(h)[i].res.kind = "ok"}
        IN  pc[h] = "done" /\ Deliveries(h) # << >> =>
                IF succeeded = {}
                THEN outcome[h] \in {"fallback_sent", "fallback_failed"} /\ caught[h] # ""
                ELSE Cardinality(succeeded) = 1 /\ outcome[h] = "delivered"

\* ------------------------------------------------------------------------
\* C8
\* ------------------------------------------------------------------------
\* the updates from a group or supergroup whose text does not hold the
\* bot's @handle and that are no reply to a message of the bot
Unaddressed ==
    {u \in Updates : /\ u.message
                     /\ IsGroup(u.chat_type)
                     /\ u.reply_to # "bot"
                     /\ ~Contains(Mention, Unpack(u.text))}

\* C8 as stated: for a group or supergroup message that neither holds the
\* bot's @handle nor replies to the bot, handle_message ends in Ignore:
\* no generation call and no message sent, whatever get_me does.
C8_UnaddressedIsIgnored ==
    \A h \in Tasks :
        update[h] \in Unaddressed =>
            /\ calls[h] = << >>
            /\ Sends(h) = << >>
            /\ pc[h] = "done" => outcome[h] = "ignored"

\* ------------------------------------------------------------------------
\* C9
\* ------------------------------------------------------------------------
\* message.text.strip() of every update
Trimmed == Table([u \in Updates |-> Pack(Strip(Unpack(u.text)))])

\* len(message.text.strip()) of every update
TrimmedLen == Table([u \in Updates |-> Len(Unpack(Trimmed[u]))])

\* get_me answered task h
GotMe(h) == transport[h] # << >> /\ transport[h][1].res.kind = "ok"

\* task h is on the Respond path: past the checks, towards generation
Responding(h) ==
    /\ GotMe(h)
    /\ pc[h] \notin {"received", "get_me", "reply_too_long"}
    /\ Len(transport[h]) >= 2 => transport[h][2].op = "send_chat_action"
    /\ pc[h] = "done" => Len(transport[h]) >= 2

\* C9 as stated: a private message whose trimmed text is not empty and at
\* most 4000 long takes the Respond path (once get_me has answered), and
\* the prompt given to get_ai_response is the trimmed text.
C9_PromptIsTrimmedText ==
    \A h \in Tasks :
        ( /\ update[h].message
          /\ update[h].chat_type = "private"
          /\ TrimmedLen[update[h]] \in 1..MaxMessageLen
          /\ GotMe(h) )
        => /\ Responding(h)
           /\ pc[h] = "done" => calls[h] # << >>
           /\ \A i \in 1..Len(calls[h]) : calls[h][i].prompt = Trimmed[update[h]]

\* ------------------------------------------------------------------------
\* C10
\* ------------------------------------------------------------------------
\* the length of the normalized text, trimmed: the text of a private chat
\* as received, that of a group without the @handle
NormalizedTrimmedLen ==
    Table([u \in Updates |->
        Len(Strip(IF IsGroup(u.chat_type) THEN Strip(Remove(Unpack(u.text), Mention))
                  ELSE Unpack(u.text)))])

\* the "too long" reply was attempted by task h
TooLongAttempted(h) ==
    \E i \in 1..Len(Sends(h)) : Sends(h)[i].text = Packed[TooLongReply]

\* C10 as stated: a message that is to be responded to and whose normalized
\* trimmed text is longer than 4000 gets no generation call, and the first
\* text handle_message tries to send is the "too long" reply; the "too long"
\* reply is sent only when the trimmed length exceeds 4000.
C10_TooLongIffTrimmedTooLong ==
    \A h \in Tasks :
        /\ PassedClassification(h) /\ NormalizedTrimmedLen[update[h]] > MaxMessageLen
             => /\ calls[h] = << >>
                /\ pc[h] \notin {"send_chat_action", "generate"}
                /\ Sends(h) # << >> => Sends(h)[1].text = Packed[TooLongReply]
        /\ TooLongAttempted(h) => NormalizedTrimmedLen[update[h]] > MaxMessageLen

\* ------------------------------------------------------------------------
\* C11
\* ------------------------------------------------------------------------
RECURSIVE TextLen(_)
\* len() of a packed text
TextLen(t) == IF t = << >> THEN 0 ELSE Len(t[1][1]) * t[1][2] + TextLen(Tail(t))

\* C11 as stated: a reply longer than 4096 is handed to delivery as its
\* first 4090 units followed by the ellipsis marker, 4093 units in all, and
\* no text handed to delivery is longer than 4096.
C11_CutReplyIs4093 ==
    \A h \in Tasks :
        retry_exit[h].kind # "" =>
            /\ TextLen(ai_response[h]) > MaxReplyLen =>
                  /\ Unpack(text[h]) =
                       SubSeq(Unpack(ai_response[h]), 1, TruncateAt) \o EllipsisMarker
                  /\ TextLen(text[h]) = 4093
            /\ TextLen(text[h]) <= MaxReplyLen
            /\ \A i \in 1..Len(Deliveries(h)) : Deliveries(h)[i].text = text[h]

\* C11 as amended: the cut reply is 4095 long, the 4090 units of the reply
\* and the 5 of the marker "... " with its emoji; a reply of at most 4096
\* is handed on as it is.
C11_CutReplyIs4095 ==
    \A h \in Tasks :
        retry_exit[h].kind # "" =>
            /\ TextLen(ai_response[h]) > MaxReplyLen =>
                  /\ Unpack(text[h]) =
                       SubSeq(Unpack(ai_response[h]), 1, TruncateAt) \o EllipsisMarker
                  /\ TextLen(text[h]) = 4095
            /\ TextLen(ai_response[h]) <= MaxReplyLen => text[h] = ai_response[h]
            /\ TextLen(text[h]) <= MaxReplyLen
            /\ \A i \in 1..Len(Deliveries(h)) : Deliveries(h)[i].text = text[h]

\* a reply of 4097 was generated and its cut form delivered
C11_Witness ==
    \E h \in Tasks :
        /\ TextLen(ai_response[h]) = MaxReplyLen + 1
        /\ outcome[h] = "delivered"
        /\ TextLen(Sent(h)[1].text) = TruncateAt + Len(EllipsisMarker)

\* ------------------------------------------------------------------------
\* C12
\* ------------------------------------------------------------------------
\* str(e) of the exceptions the generation API, get_ai_response_sync and
\* exponential_backoff_retry raise
GenerationErrors ==
    LET raised == {get_ai_response_sync(k, o).val : k \in ApiKeys, o \in ApiOutcomes}
                     \ {o.val : o \in {x \in ApiOutcomes : x.kind = "ok"}}
    IN  raised \cup {"API error: " \o m : m \in raised}
               \cup {"Rate limit exceeded after all retries", "Max retries exceeded"}

\* the exceptions of the transport, by name
TransportErrors == {r.kind : r \in (SendOutcomes \cup CallOutcomes) \ {Ok}}

\* the texts the program can be expected to send, each with whether it is
\* free of every error message
ErrorFree ==
    Table([t \in FixedReplies
                 \cup {Pack(o.val) : o \in ApiOutcomes}
                 \cup {Pack(Truncate(o.val)) : o \in ApiOutcomes}
             |-> \A m \in GenerationErrors \cup TransportErrors : ~Contains(m, Unpack(t))])

\* no error message occurs in the packed text t
FreeOfErrors(t) ==
    IF t \in DOMAIN ErrorFree THEN ErrorFree[t]
    ELSE \A m \in GenerationErrors \cup TransportErrors : ~Contains(m, Unpack(t))

\* C12: every text handle_message gives to send_message or reply_text is
\* the generated text, its cut form with the ellipsis marker, or one of the
\* fixed replies, and holds the message of no exception, whatever the
\* generation API and the transport raise.
C12_NoErrorTextSent ==
    \A h \in Tasks : \A i \in 1..Len(Sends(h)) :
        /\ Sends(h)[i].text \in FixedReplies \/ GeneratedReply(h, Sends(h)[i].text)
        /\ FreeOfErrors(Sends(h)[i].text)

\* the API failed with an internal error, the delivery of the fixed reply
\* was refused, and the generic fallback was sent
C12_Witness ==
    \E h \in Tasks :
        /\ calls[h] # << >>
        /\ calls[h][Len(calls[h])].exc = "InternalServerError"
        /\ caught[h] = "Forbidden"
        /\ outcome[h] = "fallback_sent"
        /\ Len(Sends(h)) >= 2
        /\ Sends(h)[1].text = Packed[CrashedReply]

\* ------------------------------------------------------------------------
\* C13
\* ------------------------------------------------------------------------
\* the largest MAX_RETRIES tried
MaxRetriesTried == 4

\* other positive values of MAX_RETRIES, BASE_DELAY and MAX_DELAY
Configs ==
    [MAX_RETRIES : 1..MaxRetriesTried, BASE_DELAY : {1, 3, 40}, MAX_DELAY : {2, 60}]

\* a short and a too long private message
ConfiguredUpdates ==
    {u \in Updates : /\ u.message
                     /\ u.chat_type = "private"
                     /\ u.text \in {Pack("hi"), Pack(Rep("a", MaxMessageLen + 1))}}

InitConfigured == InitWith(1, ConfiguredUpdates, {"AIza-key"}, Configs)

\* handle_message under every configuration of Configs
SpecConfigured == InitConfigured /\ [][Next]_vars

\* every attempt of send_message_with_retry so far failed with a timeout or
\* a network error
OnlyNetworkFailures(h) ==
    \A i \in 1..Len(Deliveries(h)) : IsNetworkError(Deliveries(h)[i].res.kind)

\* C13 as stated: when every attempt of send_message_with_retry fails with
\* a timeout or network error, MAX_RETRIES attempts are made, the sleep
\* after failed attempt k is min(BASE_DELAY * 2^k, MAX_DELAY), no sleep
\* follows the last attempt and the last error is raised, for the shipped
\* and for any other positive MAX_RETRIES, BASE_DELAY and MAX_DELAY.
C13_CappedNetworkBackoff ==
    \A h \in Tasks :
        OnlyNetworkFailures(h) /\ Deliveries(h) # << >> =>
            /\ Len(Deliveries(h)) <= config.MAX_RETRIES
            /\ Len(DeliverySleeps(h)) <= config.MAX_RETRIES - 1
            /\ \A k \in 0..(Len(DeliverySleeps(h)) - 1) :
                   DeliverySleeps(h)[k + 1].secs =
                       Min(config.BASE_DELAY * Pow2(k), config.MAX_DELAY)
            /\ pc[h] \in {"except", "done"} =>
                   /\ Len(Deliveries(h)) = config.MAX_RETRIES
                   /\ Len(DeliverySleeps(h)) = config.MAX_RETRIES - 1
                   /\ caught[h] = Deliveries(h)[config.MAX_RETRIES].res.kind

\* ------------------------------------------------------------------------
\* C14
\* ------------------------------------------------------------------------
\* C14 as stated: in send_message_with_retry a transport error that is
\* neither an explicit wait instruction nor a timeout or a failure of the
\* network (the permission and validation failures: Forbidden, BadRequest)
\* is raised to the caller on the attempt where it occurs, whichever attempt
\* that is: no sleep follows it and no further send_message call is made.
\* The except clauses go by class, and by class BadRequest is a NetworkError.
C14_OtherErrorRaisedAtOnce ==
    \A h \in Tasks : \A i \in 1..Len(Deliveries(h)) :
        Deliveries(h)[i].res.kind \in {"Forbidden", "BadRequest"} =>
            /\ i = Len(Deliveries(h))
            /\ Len(DeliverySleeps(h)) = i - 1
            /\ pc[h] \in {"except", "done"}
            /\ caught[h] = Deliveries(h)[i].res.kind
            /\ pc[h] = "done" => outcome[h] \in {"fallback_sent", "fallback_failed"}

\* ------------------------------------------------------------------------
\* C15
\* ------------------------------------------------------------------------
\* the wrapped call raised an exception that is no rate-limit signal and
\* none of the program's own RateLimitError and APIError
Unexpected(c) ==
    /\ c.kind = "raise"
    /\ c.exc \notin {"RateLimitError", "APIError"}
    /\ ~IsRateLimit(Lower(Unpack(c.val)))

\* C15 as stated: when the generation call raises such an unexpected
\* exception, get_ai_response returns the fixed "glitchy" reply.
C15_UnexpectedIsGlitchy ==
    \A h \in Tasks :
        ( /\ calls[h] # << >>
          /\ Unexpected(calls[h][Len(calls[h])])
          /\ retry_exit[h].kind # "" )
        => ai_response[h] = Packed[GlitchyReply]

\* ------------------------------------------------------------------------
\* C16
\* ------------------------------------------------------------------------
\* send_message_with_retry raised to handle_message
DeliveryFailed(h) ==
    /\ Deliveries(h) # << >>
    /\ caught[h] # ""
    /\ pc[h] \in {"except", "done"}

\* C16 as stated: once send_message_with_retry has raised, handle_message
\* only logs: no send of any kind is attempted for the message any more.
C16_NoSendAfterDeliveryFailed ==
    \A h \in Tasks : DeliveryFailed(h) => Sends(h) = Deliveries(h)

\* C16 as amended: once send_message_with_retry has raised, handle_message
\* logs and attempts exactly one more send, reply_text with the fixed
\* generic fallback; whether or not that succeeds, it then ends, with no
\* generation call and no send after it.
C16_OneFallbackAfterDeliveryFailed ==
    \A h \in Tasks :
        DeliveryFailed(h) =>
            LET n == Len(Deliveries(h))
            IN  /\ SubSeq(Sends(h), 1, n) = Deliveries(h)
                /\ pc[h] = "except" => Len(Sends(h)) = n
                /\ pc[h] = "done" =>
                      /\ Len(Sends(h)) = n + 1
                      /\ Sends(h)[n + 1].op = "reply_text"
                      /\ Sends(h)[n + 1].text = Packed[OopsReply]
                      /\ outcome[h] = IF Sends(h)[n + 1].res.kind = "ok"
                                      THEN "fallback_sent" ELSE "fallback_failed"

\* three network failures ended the delivery, and the generic fallback was
\* then sent
C16_Witness ==
    \E h \in Tasks :
        /\ DeliveryFailed(h)
        /\ Len(Deliveries(h)) = MAX_RETRIES
        /\ OnlyNetworkFailures(h)
        /\ outcome[h] = "fallback_sent"

\* ------------------------------------------------------------------------
\* C17
\* ------------------------------------------------------------------------
\* the ways handle_message returns
NormalReturns ==
    {"ignored", "too_long", "delivered", "returned_none", "fallback_sent", "fallback_failed"}

\* where among its send attempts task h tried the generic fallback
FallbackAttempts(h) ==
    {i \in 1..Len(Sends(h)) : Sends(h)[i].text = Packed[OopsReply]}

\* an exception was raised somewhere while task h processed its message: by
\* a transport call other than the generic fallback, or by a generation call
RaisedInside(h) ==
    \/ \E i \in 1..Len(transport[h]) :
          transport[h][i].res.kind # "ok" /\ transport[h][i].text # Packed[OopsReply]
    \/ \E i \in 1..Len(calls[h]) : calls[h][i].kind = "raise"

\* C17 as stated: for every exception raised anywhere inside
\* handle_message's processing of a message, handle_message makes exactly
\* one reply attempt with the generic fallback and returns normally.
C17_FallbackForEveryException ==
    \A h \in Tasks :
        /\ pc[h] = "done" => outcome[h] \in NormalReturns
        /\ pc[h] = "done" /\ RaisedInside(h) => Cardinality(FallbackAttempts(h)) = 1

\* C17 as amended: for every exception that reaches handle_message's except
\* clause (raised by get_me, by the "too long" reply or by
\* send_message_with_retry) handle_message makes exactly one reply attempt
\* with the generic fallback, as its last transport call, and returns
\* normally whether or not the attempt succeeds; an exception handled
\* below (typing indicator, generation, a retried send) leads to no
\* fallback attempt.  No exception leaves handle_message.
C17_OneFallbackPerCaughtException ==
    \A h \in Tasks :
        /\ pc[h] = "done" => outcome[h] \in NormalReturns
        /\ Cardinality(FallbackAttempts(h)) <= 1
        /\ caught[h] = "" => FallbackAttempts(h) = {}
        /\ caught[h] # "" =>
              /\ pc[h] \in {"except", "done"}
              /\ pc[h] = "except" =>
                    /\ FallbackAttempts(h) = {}
                    /\ transport[h][Len(transport[h])].res.kind = caught[h]
              /\ pc[h] = "done" =>
                    /\ FallbackAttempts(h) = {Len(Sends(h))}
                    /\ transport[h][Len(transport[h])].op = "reply_text"
                    /\ transport[h][Len(transport[h])].text = Packed[OopsReply]
                    /\ transport[h][Len(transport[h]) - 1].res.kind = caught[h]
                    /\ outcome[h] \in {"fallback_sent", "fallback_failed"}

\* get_me raised and the generic fallback failed too: handle_message ended
C17_Witness ==
    \E h \in Tasks :
        /\ pc[h] = "done"
        /\ caught[h] # ""
        /\ Len(transport[h]) = 2
        /\ transport[h][1].op = "get_me"
        /\ outcome[h] = "fallback_failed"

\* ------------------------------------------------------------------------
\* C18
\* ------------------------------------------------------------------------
\* one step of task h: it runs from the await it is suspended at to the next
Step(h) ==
    \/ handle_message(h)
    \/ get_me(h)
    \/ reply_too_long(h)
    \/ send_chat_action(h)
    \/ exponential_backoff_retry(h)
    \/ backoff_sleep(h)
    \/ send_message_with_retry(h)
    \/ send_sleep(h)
    \/ reply_fallback(h)

\* a short private message and a too long one
Short == CHOOSE u \in ConfiguredUpdates : u.text = Pack("hi")

Long == CHOOSE u \in ConfiguredUpdates : u.text # Pack("hi")

\* main has started polling, so the credential is set (main returns when it
\* is not), and two messages have arrived: a short one, then a too long one
InitQueued ==
    /\ InitWith(2, {Short, Long}, {"AIza-key"}, {Shipped})
    /\ update[1] = Short
    /\ update[2] = Long

\* the event loop resumes task 2 when what it awaits is there; nothing is
\* assumed of task 1, which may stay suspended for ever
SpecQueued == InitQueued /\ [][Next]_vars /\ WF_vars(Step(2))

\* the state of task h
LocalState(h) ==
    <<update[h], pc[h], user_message[h], attempt[h], delay[h], retry_exit[h],
      ai_response[h], text[h], caught[h], outcome[h], calls[h], sleeps[h], transport[h]>>

\* handle_message of task h is suspended at an await: a sleep or a call of
\* the network
Suspended(h) == pc[h] \notin {"received", "done"}

\* C18 as stated: a message whose handler is suspended in a backoff sleep
\* or a network call never keeps another message from progressing: in
\* every state the other message, unless its handler has ended, can take
\* its next step; a step changes the state of one task only and leaves the
\* credential and the configuration alone; and the second message is
\* handled to its end even when the first handler never resumes.
C18_SuspendedTaskBlocksNoOther ==
    /\ [](\A a \in Tasks : \A b \in Tasks \ {a} :
             Suspended(a) /\ pc[b] # "done" => ENABLED Step(b))
    /\ [][ /\ \E h \in Tasks : \A g \in Tasks \ {h} : LocalState(g)' = LocalState(g)
           /\ UNCHANGED <<GEMINI_API_KEY, config>> ]_vars
    /\ <>(pc[2] = "done")

\* ------------------------------------------------------------------------
\* C19
\* ------------------------------------------------------------------------
\* task h is past its send_chat_action call, however that ended
TypingDone(h) == Len(transport[h]) >= 2 /\ transport[h][2].op = "send_chat_action"

\* the text handle_message makes of the way exponential_backoff_retry ended
TextOf(exit) ==
    PackText(Truncate(get_ai_response([kind |-> exit.kind, val |-> Unpack(exit.val)])))

\* C19: the typing indicator is best-effort.  Whether send_chat_action
\* fails or succeeds, what follows is the same: the generation is called
\* with the prompt of the message, the text handed to delivery is what the
\* generation's end determines, and the generic fallback is attempted only
\* when send_message_with_retry raised, never because of the indicator.
C19_TypingIsBestEffort ==
    \A h \in Tasks :
        TypingDone(h) =>
            /\ pc[h] \notin {"received", "get_me", "reply_too_long", "send_chat_action"}
            /\ pc[h] = "done" => calls[h] # << >> /\ Deliveries(h) # << >>
            /\ \A i \in 1..Len(calls[h]) :
                   calls[h][i].prompt = Classification[update[h]].user_message
            /\ retry_exit[h].kind # "" => text[h] = TextOf(retry_exit[h])
            /\ \A i \in 1..Len(Deliveries(h)) : Deliveries(h)[i].text = text[h]
            /\ caught[h] # "" \/ FallbackAttempts(h) # {} => DeliveryFailed(h)

\* the typing indicator failed, and the generated reply was delivered at
\* the first attempt
C19_Witness ==
    \E h \in Tasks :
        /\ TypingDone(h)
        /\ transport[h][2].res.kind # "ok"
        /\ Len(transport[h]) = 3
        /\ outcome[h] = "delivered"
        /\ calls[h][Len(calls[h])].kind = "ok"
        /\ Sent(h)[1].text = calls[h][Len(calls[h])].val

\* ------------------------------------------------------------------------
\* C20
\* ------------------------------------------------------------------------
\* every external call and every sleep returns: a task that can take a
\* step eventually takes one
SpecFair == Init /\ [][Next]_vars /\ WF_vars(Next)

\* C20: if every external call and every sleep returns, every
\* handle_message invocation ends, and it makes at most MAX_RETRIES
\* generation calls, at most MAX_RETRIES - 1 generation backoff sleeps and
\* at most MAX_RETRIES + 1 send attempts: MAX_RETRIES by
\* send_message_with_retry and at most one fallback reply.
C20_TerminatesWithinBounds ==
    /\ [](\A h \in Tasks :
             /\ Len(calls[h]) <= config.MAX_RETRIES
             /\ Len(GenerationSleeps(h)) <= config.MAX_RETRIES - 1
             /\ Len(Deliveries(h)) <= config.MAX_RETRIES
             /\ Len(Sends(h)) <= Len(Deliveries(h)) + 2
             /\ Len(Sends(h)) <= config.MAX_RETRIES + 1)
    /\ <>[](\A h \in Tasks : pc[h] = "done")

\* a task ended after MAX_RETRIES generation calls, MAX_RETRIES - 1 backoff
\* sleeps, MAX_RETRIES failed sends and the fallback reply
C20_Witness ==
    \E h \in Tasks :
        /\ pc[h] = "done"
        /\ Len(calls[h]) = MAX_RETRIES
        /\ Len(GenerationSleeps(h)) = MAX_RETRIES - 1
        /\ Len(Deliveries(h)) = MAX_RETRIES
        /\ Len(Sends(h)) = MAX_RETRIES + 1

====
